---- MODULE Spec2Model ----
(***************************************************************************)
(* Model of tests/test.py of dbrew: the TestCase state machine (compile,   *)
(* run, test, store, printResult), the buffered subprocess runner with    *)
(* its debug-line filter, the filter pipeline, and the batch loop of      *)
(* __main__.                                                               *)
(*                                                                         *)
(* Text is modelled as sequences of one-character strings, an output      *)
(* stream as a sequence of lines (the trailing "\n" every line carries in *)
(* the code is implicit).  Captured bytes are taken to be decodable text. *)
(***************************************************************************)
EXTENDS Integers, Sequences, FiniteSets, TLC

\* ------------------------------------------------------------------ bounds
MaxOutLines == 2      \* lines a command writes to stdout
MaxExpectLines == 1   \* lines of an expectation file present before the run
MaxRuns == 2          \* executions of the run command of one TestCase object
NumCases == 2         \* test files of one batch
MaxHeaderLines == 2   \* leading lines of a source file that fetchProperties is given
MaxMajor == 12        \* largest major version a toolchain reports

\* --------------------------------------------------- TestCase status values
WAITING == 1
COMPILED == 2
EXECUTED == 3
SUCCESS == 4
FAILED == 5
IGNORED == 6

\* ------------------------------------------------------------------- text
DbgMarker == <<"!", "D", "B", "G">>
LineA == <<"a">>
LineDbg == <<"!", "D", "B", "G">>
LineInd == <<" ", "!", "D", "B", "G">>
RawAlphabet == {LineA, LineDbg, LineInd}
ExpectAlphabet == {LineA}
Digits == {"0", "1", "2", "3", "4", "5", "6", "7", "8", "9"}

SeqsUpTo(S, n) == UNION {[1..k -> S] : k \in 0..n}

DigitVal(c) == CASE c = "0" -> 0 [] c = "1" -> 1 [] c = "2" -> 2 [] c = "3" -> 3
                 [] c = "4" -> 4 [] c = "5" -> 5 [] c = "6" -> 6 [] c = "7" -> 7
                 [] c = "8" -> 8 [] c = "9" -> 9

RECURSIVE DecimalVal(_)
DecimalVal(s) == IF Len(s) = 0 THEN 0
                 ELSE 10 * DecimalVal(SubSeq(s, 1, Len(s) - 1)) + DigitVal(s[Len(s)])

\* int(s) of Python on a trimmed string: a value, or ValueError
IntOk(s) == Len(s) > 0 /\ \A i \in 1..Len(s) : s[i] \in Digits
IntOf(s) == DecimalVal(s)

StartsWith(s, p) == Len(s) >= Len(p) /\ SubSeq(s, 1, Len(p)) = p

\* ------------------------------------------------- Utils.execBuffered
IsDebugLine(out) == Len(out) >= 4 /\ SubSeq(out, 1, 4) = DbgMarker

RECURSIVE DropDebug(_)
DropDebug(lines) ==
    IF Len(lines) = 0 THEN <<>>
    ELSE IF IsDebugLine(Head(lines)) THEN DropDebug(Tail(lines))
         ELSE <<Head(lines)>> \o DropDebug(Tail(lines))

execBuffered(rc, rawOut, rawErr) ==
    [returnCode |-> rc, out |-> DropDebug(rawOut), err |-> DropDebug(rawErr)]

\* --------------------------------------------------- filter scripts on disk
\* What `/bin/sh -c P.expect_filter` writes for the lines it is fed:
\* "strip" removes the leading blanks of every line (sed 's/^ *//').
FilterScripts == {"strip"}

RECURSIVE StripLine(_)
StripLine(l) == IF Len(l) > 0 /\ Head(l) = " " THEN StripLine(Tail(l)) ELSE l

runFilter(script, lines) ==
    IF script = "strip" THEN [i \in 1..Len(lines) |-> StripLine(lines[i])]
    ELSE lines

\* ---------------------------------------------------------- property sets
NoProps == [k \in {} |-> <<>>]
Prop(k, v) == [x \in {k} |-> v]

compileDef == <<"cc", "ccflags", "outfile", "infile", "driver", "dbrew">>
runDef == <<"outfile", "args">>
BadTemplate == <<"outfile", "nokey">>

\* str.format(**substs): KeyError when a placeholder has no key
formatOk(template, substs) == \A i \in 1..Len(template) : template[i] \in DOMAIN substs
format(template, substs) == [i \in 1..Len(template) |-> substs[template[i]]]

\* ------------------------------------------------------------- TestCase
\* One TestCase object together with the files of its test case, the
\* behaviours of the commands it starts and the history of what it did.
NoFile == [exists |-> FALSE, lines |-> <<>>]
File(lines) == [exists |-> TRUE, lines |-> lines]

NewTestCase(f) ==
    [ sourceFile |-> f.name,
      status |-> WAITING,
      outResult |-> <<>>,
      errResult |-> <<>>,
      properties |-> f.properties,
      driver |-> IF "driver" \in DOMAIN f.properties THEN f.properties["driver"]
                 ELSE "test-driver.c",
      driverProperties |-> f.driverProperties,
      env |-> f.env,
      expectFile |-> f.expect,
      expectErrFile |-> f.expectErr,
      filter |-> f.filter,
      errFilter |-> f.errFilter,
      exc |-> "none",
      did |-> {},
      log |-> <<WAITING>>,
      nCompile |-> 0,
      nRun |-> 0,
      nCheck |-> 0,
      nExpectOpen |-> 0,
      nExpectWrite |-> 0,
      lastCmd |-> <<>>,
      runRC |-> -1,
      captured |-> [out |-> <<>>, err |-> <<>>] ]

SetStatus(w, s) == [w EXCEPT !.status = s, !.log = Append(@, s)]
Raise(w, e) == [w EXCEPT !.exc = e]
Did(w, e) == [w EXCEPT !.did = @ \cup {e}]

getPropertyDriverFirst(w, name, default) ==
    IF name \in DOMAIN w.driverProperties THEN w.driverProperties[name]
    ELSE IF name \in DOMAIN w.properties THEN w.properties[name]
    ELSE default
getProperty(w, name, default) ==
    IF name \in DOMAIN w.properties THEN w.properties[name]
    ELSE IF name \in DOMAIN w.driverProperties THEN w.driverProperties[name]
    ELSE default

\* re.search('^(cc|gcc|clang)', cc).group(1), or "none"
Contains(s, p) == \E k \in 0..(Len(s) - Len(p)) : SubSeq(s, k + 1, k + Len(p)) = p
ccMatchUnanchored(cc) ==
    IF Contains(cc, <<"c", "c">>) THEN "cc"
    ELSE IF Contains(cc, <<"c", "l", "a", "n", "g">>) THEN "clang"
    ELSE "none"
ccMatch(cc) ==
    IF StartsWith(cc, <<"c", "c">>) THEN "cc"
    ELSE IF StartsWith(cc, <<"g", "c", "c">>) THEN "gcc"
    ELSE IF StartsWith(cc, <<"c", "l", "a", "n", "g">>) THEN "clang"
    ELSE "none"

\* lines 103-108: the flags for a recognized toolchain; v is what
\* `cc -dumpversion` printed (read only for cc and gcc)
probeOk(m, v) == m = "clang" \/ (Len(v) > 0 /\ IntOk(<<v[1]>>))
ccflagsFor(base, m, v) ==
    LET f1 == Append(base, "-fno-pie")
    IN IF m \in {"gcc", "cc"} /\ IntOf(<<v[1]>>) > 4 THEN Append(f1, "-no-pie") ELSE f1

compileSubsts(w, cc, flags) ==
    [ cc |-> cc, ldflags |-> "-g -L/usr/lib64/llvm", ldlibs |-> "-lLLVM-3.8",
      ccflags |-> flags, dbrew |-> "-I../include ../build/src/libdbrew-test.a",
      outfile |-> "P.out", infile |-> w.sourceFile, ofile |-> "P.o",
      driver |-> w.driver ]

\* lines 114-127, for the probe output v
compileWith(w, p, cc, m, v) ==
    IF ~probeOk(m, v) THEN {Raise(w, "error")}
    ELSE LET substs == compileSubsts(w, cc,
                          ccflagsFor(getProperty(w, "ccflags", <<"-std=c99", "-g">>), m, v))
             template == getProperty(w, "compile", compileDef)
         IN IF ~formatOk(template, substs) THEN {Raise(w, "error")}
            ELSE { LET w1 == Did([w EXCEPT !.nCompile = @ + 1,
                                           !.lastCmd = format(template, substs)], "compile")
                   IN IF rc # 0 THEN Raise(SetStatus(w1, FAILED), "fail")
                      ELSE SetStatus(w1, COMPILED)
                   : rc \in p.compileRCs }

compile(w, p) ==
    IF w.status # WAITING THEN {w}
    ELSE LET cc == getProperty(w, "cc", IF "CC" \in DOMAIN w.env THEN w.env["CC"]
                                        ELSE <<"c", "c">>)
             m == ccMatch(cc)
         IN IF m = "none" THEN {Raise(SetStatus(w, FAILED), "fail")}
            ELSE UNION { compileWith(w, p, cc, m, v) :
                           v \in IF m = "clang" THEN {<<>>} ELSE p.versions }

\* lines 149-156: the streams run() goes on with.  The loop assigns the
\* local outResult for either stream and leaves errResult as captured.
filteredStreams(w, out, err) ==
    [ out |-> IF w.errFilter # "none" THEN runFilter(w.errFilter, err)
              ELSE IF w.filter # "none" THEN runFilter(w.filter, out)
              ELSE out,
      err |-> err,
      captured |-> [out |-> out, err |-> err] ]

\* lines 168-169; captured remembers what execBuffered had returned
stored(w, streams) ==
    [w EXCEPT !.outResult = streams.out, !.errResult = streams.err,
              !.captured = streams.captured]

\* lines 158-169: what run() makes of the exit code and the streams
finishRunNoOutputFirst(w, returnCode, streams) ==
    LET nooutput == getProperty(w, "nooutput", <<"0">>)
    IN IF ~IntOk(nooutput) THEN Raise(w, "error")
       ELSE IF IntOf(nooutput) = 1 THEN SetStatus(w, SUCCESS)
       ELSE IF returnCode # 0 THEN Raise(SetStatus(w, FAILED), "fail")
       ELSE stored(SetStatus(w, EXECUTED), streams)
finishRunNoOutputUnread(w, returnCode, streams) ==
    IF returnCode # 0 THEN Raise(SetStatus(w, FAILED), "fail")
    ELSE stored(SetStatus(w, EXECUTED), streams)
finishRun(w, returnCode, streams) ==
    LET nooutput == getProperty(w, "nooutput", <<"0">>)
    IN IF returnCode # 0 THEN Raise(SetStatus(w, FAILED), "fail")
       ELSE IF ~IntOk(nooutput) THEN Raise(w, "error")
       ELSE IF IntOf(nooutput) = 1 THEN SetStatus(w, SUCCESS)
       ELSE stored(SetStatus(w, EXECUTED), streams)

\* lines 147-169, for one behaviour of the run command
runWith(w, cmd, rc, rawOut, rawErr) ==
    LET r == execBuffered(rc, rawOut, rawErr)
        w1 == Did([w EXCEPT !.nRun = @ + 1, !.lastCmd = cmd, !.runRC = r.returnCode],
                  "run")
        w2 == IF w.filter = "none" THEN w1 ELSE Did(w1, "filter")
        w3 == IF w.errFilter = "none" THEN w2 ELSE Did(w2, "errfilter")
    IN finishRun(w3, r.returnCode, filteredStreams(w, r.out, r.err))

\* lines 133-169
runAfterCompileUnguarded(w, p) ==
    IF w.exc # "none" THEN {w}
    ELSE LET substs == [outfile |-> "P.out", args |-> getProperty(w, "args", <<>>)]
             template == getProperty(w, "run", runDef)
         IN IF ~formatOk(template, substs) THEN {Raise(w, "error")}
            ELSE { runWith(w, format(template, substs), rc, o, e) :
                     rc \in p.runRCs, o \in p.outs, e \in p.errs }
runAfterCompile(w, p) ==
    IF w.exc # "none" \/ w.status # COMPILED THEN {w}
    ELSE LET substs == [outfile |-> "P.out", args |-> getProperty(w, "args", <<>>)]
             template == getProperty(w, "run", runDef)
         IN IF ~formatOk(template, substs) THEN {Raise(w, "error")}
            ELSE { runWith(w, format(template, substs), rc, o, e) :
                     rc \in p.runRCs, o \in p.outs, e \in p.errs }

run(w, p) == UNION { runAfterCompile(w1, p) : w1 \in compile(w, p) }

\* lines 180-183: the stdout expectation cannot be read
missingExpectationFails(w) == Raise(SetStatus(w, FAILED), "fail")
missingExpectation(w) == Raise(SetStatus(w, IGNORED), "ignored")

\* lines 175-207
testAfterRun(w) ==
    IF w.exc # "none" \/ w.status # EXECUTED THEN w
    ELSE LET w1 == [w EXCEPT !.nExpectOpen = @ + 1]
         IN IF ~w.expectFile.exists THEN missingExpectation(w1)
            ELSE LET w2 == Did([w1 EXCEPT !.nCheck = @ + 1], "compare")
                 IN IF w.outResult # w.expectFile.lines
                    THEN Raise(SetStatus(w2, FAILED), "fail")
                    ELSE IF ~w.expectErrFile.exists THEN SetStatus(w2, SUCCESS)
                    ELSE LET w3 == Did([w2 EXCEPT !.nExpectOpen = @ + 1], "compareErr")
                         IN IF w.errResult # w.expectErrFile.lines
                            \* the raise of line 201 is caught by line 204
                            THEN SetStatus(SetStatus(Did(w3, "errDiffers"), FAILED), SUCCESS)
                            ELSE SetStatus(w3, SUCCESS)

test(w, p) == { testAfterRun(w1) : w1 \in run(w, p) }

\* f.writelines(lines) of line 217 and f.readlines() of lines 179 and 194:
\* the file holds the characters of the lines, each followed by "\n", and is
\* read back by cutting after every "\n"
NL == "\n"
Terminated(lines) == [i \in 1..Len(lines) |-> Append(lines[i], NL)]

RECURSIVE writelines(_)
writelines(lines) ==
    IF Len(lines) = 0 THEN <<>> ELSE Head(lines) \o writelines(Tail(lines))

RECURSIVE readlinesFrom(_, _)
readlinesFrom(chars, cur) ==
    IF Len(chars) = 0 THEN (IF Len(cur) = 0 THEN <<>> ELSE <<cur>>)
    ELSE IF Head(chars) = NL THEN <<Append(cur, NL)>> \o readlinesFrom(Tail(chars), <<>>)
    ELSE readlinesFrom(Tail(chars), Append(cur, Head(chars)))
readlines(chars) == readlinesFrom(chars, <<>>)

\* a line as the model holds it: without the "\n" that ends it
Unterminated(lines) ==
    [i \in 1..Len(lines) |->
        IF Len(lines[i]) > 0 /\ lines[i][Len(lines[i])] = NL
        THEN SubSeq(lines[i], 1, Len(lines[i]) - 1) ELSE lines[i]]

\* the expectation file as a later open() finds it after line 217
writtenFileUnterminated(lines) == File(Unterminated(readlines(writelines(lines))))
writtenFile(lines) == File(Unterminated(readlines(writelines(Terminated(lines)))))

\* lines 214-220
storeAfterRunUnguarded(w) ==
    IF w.exc # "none" \/ w.status \in {WAITING, COMPILED, FAILED} THEN w
    ELSE SetStatus(Did([w EXCEPT !.expectFile = writtenFile(w.outResult),
                                 !.nExpectWrite = @ + 1,
                                 !.nCheck = @ + 1], "store"), SUCCESS)
storeAfterRun(w) ==
    IF w.exc # "none" \/ w.status # EXECUTED THEN w
    ELSE SetStatus(Did([w EXCEPT !.expectFile = writtenFile(w.outResult),
                                 !.nExpectWrite = @ + 1,
                                 !.nCheck = @ + 1], "store"), SUCCESS)

store(w, p) == { storeAfterRun(w1) : w1 \in run(w, p) }

\* lines 225-230
printAfterRun(w) ==
    IF w.exc # "none" \/ w.status # EXECUTED THEN w
    ELSE SetStatus(Did([w EXCEPT !.nCheck = @ + 1], "print"), SUCCESS)

printResult(w, p) == { printAfterRun(w1) : w1 \in run(w, p) }

\* a call of a phase method from outside: nothing is in flight
Entered(w) == [w EXCEPT !.exc = "none", !.did = {}]

\* ------------------------------------------------ Utils.fetchProperties
\* A source file as fetchProperties reads it: its lines without their line
\* ends, and whether the last line is ended by a newline.
Marker == <<"/", "/", "!">>
Whitespace == {" ", "\t", "\r", NL}

\* f.readline(): the n-th line with its newline, <<>> at end of file
readline(f, n) ==
    IF n > Len(f.lines) THEN <<>>
    ELSE IF n < Len(f.lines) \/ f.finalNewline THEN Append(f.lines[n], NL)
    ELSE f.lines[n]

RECURSIVE lstrip(_)
lstrip(s) == IF Len(s) > 0 /\ Head(s) \in Whitespace THEN lstrip(Tail(s)) ELSE s
RECURSIVE rstrip(_)
rstrip(s) ==
    IF Len(s) > 0 /\ s[Len(s)] \in Whitespace THEN rstrip(SubSeq(s, 1, Len(s) - 1)) ELSE s
strip(s) == rstrip(lstrip(s))

\* str.lower() on the letters of the header lines used here
lowerChar(c) == CASE c = "K" -> "k" [] c = "V" -> "v" [] OTHER -> c
lower(s) == [i \in 1..Len(s) |-> lowerChar(s[i])]

\* s.split("=", 1)
split(s) ==
    IF \E i \in 1..Len(s) : s[i] = "="
    THEN LET i == CHOOSE i \in 1..Len(s) : s[i] = "=" /\ \A j \in 1..(i - 1) : s[j] # "="
         IN <<SubSeq(s, 1, i - 1), SubSeq(s, i + 1, Len(s))>>
    ELSE <<s>>

\* s[:-1]
dropLast(s) == SubSeq(s, 1, Len(s) - 1)

\* properties[k] = v
put(properties, k, v) ==
    [x \in DOMAIN properties \cup {k} |-> IF x = k THEN v ELSE properties[x]]

\* lines 23-28, from the n-th readline on; split[1] of a line without "="
\* is an IndexError
RECURSIVE fetchFrom(_, _, _)
fetchFrom(f, n, properties) ==
    LET argLine == readline(f, n) IN
    IF Len(argLine) >= 4 /\ SubSeq(argLine, 1, 3) = Marker
    THEN LET sp == split(SubSeq(argLine, 4, Len(argLine))) IN
         IF Len(sp) < 2 THEN [error |-> TRUE, properties |-> NoProps]
         ELSE fetchFrom(f, n + 1,
                        put(properties, strip(lower(sp[1])), strip(dropLast(sp[2]))))
    ELSE [error |-> FALSE, properties |-> properties]

fetchProperties(f) == fetchFrom(f, 1, NoProps)

\* ------------------------------------------------------------ input sets
ExitCodes == {0, 1}
Versions == {<<>>, <<"4", ".", "8">>, <<"7">>, <<"1", "0">>}
Expectations == {NoFile} \cup {File(l) : l \in SeqsUpTo(ExpectAlphabet, MaxExpectLines)}
Scripts == {"none"} \cup FilterScripts

Clang == <<"c", "l", "a", "n", "g">>
Gcc == <<"g", "c", "c">>
Icc == <<"i", "c", "c">>
Config(local, driver, env) == [properties |-> local, driverProperties |-> driver, env |-> env]

\* the property headers of the source and the driver, and the environment
Configs ==
    { Config(NoProps, NoProps, NoProps),
      Config(NoProps, NoProps, Prop("CC", Clang)),
      Config(Prop("nooutput", <<"0">>), Prop("nooutput", <<"1">>), Prop("CC", Clang)),
      Config(Prop("nooutput", <<"1">>), Prop("cc", Clang), NoProps),
      Config(NoProps, Prop("nooutput", <<"1">>), Prop("CC", Gcc)),
      Config(Prop("nooutput", <<"x">>), Prop("cc", Clang), Prop("CC", Icc)),
      Config(Prop("cc", Icc), Prop("cc", Clang), NoProps),
      Config(NoProps, NoProps, Prop("CC", Icc)),
      Config(Prop("compile", BadTemplate), NoProps, Prop("CC", Clang)),
      Config(Prop("run", BadTemplate), Prop("cc", Clang), NoProps) }

ErrOutputs == {<<>>, <<LineA>>, <<LineDbg>>}

\* a program under test that may do anything within the bounds
AnyProg ==
    [ compileRCs |-> ExitCodes, runRCs |-> ExitCodes, versions |-> Versions,
      outs |-> SeqsUpTo(RawAlphabet, MaxOutLines),
      errs |-> ErrOutputs ]

\* a test source P with its header, its driver and the files beside it
TestFile(c, expect, expectErr, filter, errFilter) ==
    [ name |-> "P", properties |-> c.properties, driverProperties |-> c.driverProperties,
      env |-> c.env, expect |-> expect, expectErr |-> expectErr,
      filter |-> filter, errFilter |-> errFilter ]

ApiFiles ==
    { TestFile(c, e, ee, f, ef) :
        c \in Configs, e \in Expectations, ee \in Expectations,
        f \in Scripts, ef \in Scripts }

\* a program under test that always behaves the same way
Prog(compileRC, runRC, out, err) ==
    [ compileRCs |-> {compileRC}, runRCs |-> {runRC}, versions |-> {<<"7">>},
      outs |-> {out}, errs |-> {err} ]

\* a test file of a batch: may its source and its driver be opened, and
\* what do its compile and run commands do
BatchFile(f, sourceOk, driverOk, prog) ==
    [ file |-> f, sourceOk |-> sourceOk, driverOk |-> driverOk, prog |-> prog ]

Plain == Config(NoProps, NoProps, Prop("CC", Clang))
NoOutput == Config(Prop("nooutput", <<"1">>), NoProps, NoProps)
BadRun == Config(Prop("run", BadTemplate), NoProps, Prop("CC", Clang))

BatchFiles ==
    { \* passes: stdout as expected, stderr not checked
      BatchFile(TestFile(Plain, File(<<LineA>>), NoFile, "none", "none"),
                TRUE, TRUE, Prog(0, 0, <<LineDbg, LineA>>, <<LineA>>)),
      \* passes: stdout and stderr as expected
      BatchFile(TestFile(Plain, File(<<LineA>>), File(<<>>), "none", "none"),
                TRUE, TRUE, Prog(0, 0, <<LineA>>, <<LineDbg>>)),
      \* no expectation yet
      BatchFile(TestFile(Plain, NoFile, NoFile, "none", "none"),
                TRUE, TRUE, Prog(0, 0, <<LineA>>, <<>>)),
      \* stdout differs
      BatchFile(TestFile(Plain, File(<<LineA>>), NoFile, "none", "none"),
                TRUE, TRUE, Prog(0, 0, <<LineA, LineA>>, <<>>)),
      \* stdout as expected, stderr differs
      BatchFile(TestFile(Plain, File(<<LineA>>), File(<<>>), "none", "none"),
                TRUE, TRUE, Prog(0, 0, <<LineA>>, <<LineA>>)),
      \* does not compile
      BatchFile(TestFile(Plain, File(<<LineA>>), NoFile, "none", "none"),
                TRUE, TRUE, Prog(1, 0, <<LineA>>, <<>>)),
      \* exits 1, no expectation
      BatchFile(TestFile(Plain, NoFile, NoFile, "none", "none"),
                TRUE, TRUE, Prog(0, 1, <<LineA>>, <<>>)),
      \* nooutput=1, no expectation
      BatchFile(TestFile(NoOutput, NoFile, NoFile, "none", "none"),
                TRUE, TRUE, Prog(0, 0, <<LineA>>, <<>>)),
      \* run template with an unknown placeholder
      BatchFile(TestFile(BadRun, File(<<LineA>>), NoFile, "none", "none"),
                TRUE, TRUE, Prog(0, 0, <<LineA>>, <<>>)),
      \* filtered stdout
      BatchFile(TestFile(Plain, File(<<LineA>>), NoFile, "strip", "none"),
                TRUE, TRUE, Prog(0, 0, <<LineA>>, <<>>)),
      \* source file that cannot be opened
      BatchFile(TestFile(Plain, File(<<LineA>>), NoFile, "none", "none"),
                FALSE, TRUE, Prog(0, 0, <<LineA>>, <<>>)),
      \* driver file that cannot be opened
      BatchFile(TestFile(Plain, NoFile, NoFile, "none", "none"),
                TRUE, FALSE, Prog(0, 0, <<LineA>>, <<>>)) }

Actions == {"test", "store", "printResult"}

\* args.action(testCase)
actionOutcomes(a, w, p) ==
    IF a = "test" THEN test(w, p)
    ELSE IF a = "store" THEN store(w, p)
    ELSE printResult(w, p)

\* lines 267-275: the lists after the action on a case ended as in w
failedAfterIgnoredToo(failed, w) ==
    IF w.exc \in {"fail", "error", "ignored"} THEN Append(failed, w.sourceFile) ELSE failed
failedAfterSignalOnly(failed, w) ==
    IF w.exc = "fail" THEN Append(failed, w.sourceFile) ELSE failed
failedAfter(failed, w) ==
    IF w.exc \in {"fail", "error"} THEN Append(failed, w.sourceFile) ELSE failed
ignoredAfter(ignored, w) ==
    IF w.exc = "ignored" THEN Append(ignored, w.sourceFile) ELSE ignored

\* line 279: the two numbers of the summary
summary(cases, failed, ignored) ==
    [failed |-> Len(failed), of |-> Len(cases) - Len(ignored)]

\* lines 277-287
exitCodeIgnoredToo(failed, ignored) == IF Len(failed) + Len(ignored) > 0 THEN 1 ELSE 0
exitCode(failed, ignored) == IF Len(failed) > 0 THEN 1 ELSE 0

\* ------------------------------------------------------------------ state
VARIABLES
    testCases,   \* the TestCase objects, in construction order
    lastCall,    \* the phase method called last from outside
    pc,          \* where __main__ is: "construct", "loop", "done", "aborted"
    action,      \* args.action
    testFiles,   \* the test files found, with what each will do
    idx,         \* position of the batch loop in testCases
    failed,      \* the list failed
    ignored,     \* the list ignored
    returnCode,  \* exit status of the process, -1 while it runs
    order        \* positions of the cases given to the action so far, in time order

vars == <<testCases, lastCall, pc, action, testFiles, idx, failed, ignored, returnCode,
          order>>
batchVars == <<pc, action, testFiles, idx, failed, ignored, returnCode, order>>

\* ------------------------------------------- one TestCase, called freely
\* One TestCase object whose phase methods are called in any order.
Init ==
    /\ \E f \in ApiFiles : testCases = <<NewTestCase(f)>>
    /\ lastCall = "none"
    /\ pc = "api"
    /\ action = "none"
    /\ testFiles = <<>>
    /\ idx = 1
    /\ failed = <<>>
    /\ ignored = <<>>
    /\ returnCode = -1
    /\ order = <<>>

Call(name, outcomes) ==
    /\ testCases[1].nRun < MaxRuns
    /\ \E w \in outcomes : testCases' = <<w>>
    /\ lastCall' = name
    /\ UNCHANGED batchVars

CallCompile == Call("compile", compile(Entered(testCases[1]), AnyProg))
CallRun == Call("run", run(Entered(testCases[1]), AnyProg))
CallTest == Call("test", test(Entered(testCases[1]), AnyProg))
CallStore == Call("store", store(Entered(testCases[1]), AnyProg))
CallPrintResult == Call("printResult", printResult(Entered(testCases[1]), AnyProg))

Next == CallCompile \/ CallRun \/ CallTest \/ CallStore \/ CallPrintResult

Spec == Init /\ [][Next]_vars

\* ------------------------------------------------------------ the batch
Names == <<"P1", "P2", "P3", "P4">>

BatchInit ==
    /\ testFiles \in [1..NumCases -> BatchFiles]
    /\ action \in Actions
    /\ pc = "construct"
    /\ testCases = <<>>
    /\ lastCall = "none"
    /\ idx = 1
    /\ failed = <<>>
    /\ ignored = <<>>
    /\ returnCode = -1
    /\ order = <<>>

\* line 259: every TestCase is constructed before any is run; an error of
\* fetchProperties leaves the list comprehension and ends the process
Construct ==
    /\ pc = "construct"
    /\ IF \A i \in 1..Len(testFiles) : testFiles[i].sourceOk /\ testFiles[i].driverOk
       THEN /\ testCases' = [i \in 1..Len(testFiles) |->
                               NewTestCase([testFiles[i].file EXCEPT !.name = Names[i]])]
            /\ pc' = "loop"
            /\ returnCode' = returnCode
       ELSE /\ testCases' = testCases
            /\ pc' = "aborted"
            /\ returnCode' = 1
    /\ UNCHANGED <<lastCall, action, testFiles, idx, failed, ignored, order>>

\* lines 263-275, one iteration
RunCase ==
    /\ pc = "loop"
    /\ idx <= Len(testCases)
    /\ \E w \in actionOutcomes(action, Entered(testCases[idx]), testFiles[idx].prog) :
         /\ testCases' = [testCases EXCEPT ![idx] = w]
         /\ failed' = failedAfter(failed, w)
         /\ ignored' = ignoredAfter(ignored, w)
    /\ idx' = idx + 1
    /\ order' = Append(order, idx)
    /\ lastCall' = action
    /\ UNCHANGED <<pc, action, testFiles, returnCode>>

\* lines 277-287
Finish ==
    /\ pc = "loop"
    /\ idx > Len(testCases)
    /\ returnCode' = exitCode(failed, ignored)
    /\ pc' = "done"
    /\ UNCHANGED <<testCases, lastCall, action, testFiles, idx, failed, ignored, order>>

BatchNext == Construct \/ RunCase \/ Finish

BatchSpec == BatchInit /\ [][BatchNext]_vars

\* ------------------------------------------------- record, then verify
\* `test.py --store P` and then `test.py --test P` on a program that does
\* the same every time: verify either on the TestCase that stored or on a
\* TestCase constructed anew beside the files the store left.
RoundTripConfigs ==
    { Plain, NoOutput, Config(NoProps, NoProps, NoProps),
      Config(Prop("cc", Icc), NoProps, NoProps) }

RoundTripFiles ==
    { BatchFile(TestFile(c, e, ee, f, ef), TRUE, TRUE, Prog(crc, rrc, o, er)) :
        c \in RoundTripConfigs, e \in {NoFile, File(<<LineA>>)}, ee \in Expectations,
        f \in Scripts, ef \in Scripts, crc \in ExitCodes, rrc \in ExitCodes,
        o \in SeqsUpTo(RawAlphabet, MaxOutLines), er \in ErrOutputs }

RoundTripInit ==
    /\ \E f \in RoundTripFiles :
         /\ testFiles = <<f>>
         /\ testCases = <<NewTestCase(f.file)>>
    /\ action = "store"
    /\ pc = "record"
    /\ lastCall = "none"
    /\ idx = 1
    /\ failed = <<>>
    /\ ignored = <<>>
    /\ returnCode = -1
    /\ order = <<>>

\* the store action on the first TestCase
Record ==
    /\ pc = "record"
    /\ \E w \in store(Entered(testCases[1]), testFiles[1].prog) : testCases' = <<w>>
    /\ pc' = "recorded"
    /\ lastCall' = "store"
    /\ UNCHANGED <<action, testFiles, idx, failed, ignored, returnCode, order>>

\* the verify action on the TestCase that stored
VerifySame ==
    /\ pc = "recorded"
    /\ \E w \in test(Entered(testCases[1]), testFiles[1].prog) :
         testCases' = <<testCases[1], w>>
    /\ pc' = "verified"
    /\ action' = "test"
    /\ lastCall' = "test"
    /\ UNCHANGED <<testFiles, idx, failed, ignored, returnCode, order>>

\* the verify action on a new TestCase for the same source
VerifyFresh ==
    /\ pc = "recorded"
    /\ LET f == [testFiles[1].file EXCEPT !.expect = testCases[1].expectFile]
       IN \E w \in test(Entered(NewTestCase(f)), testFiles[1].prog) :
            testCases' = <<testCases[1], w>>
    /\ pc' = "verified"
    /\ action' = "test"
    /\ lastCall' = "test"
    /\ UNCHANGED <<testFiles, idx, failed, ignored, returnCode, order>>

RoundTripNext == Record \/ VerifySame \/ VerifyFresh

RoundTripSpec == RoundTripInit /\ [][RoundTripNext]_vars

\* ------------------------------------------- fetchProperties on a file
\* Lines a source file may begin with.
Header(body) == Marker \o body
HeaderLines ==
    { Header(<<"K", "=", "v">>),
      Header(<<" ", "K", " ", "=", " ", "v", " ">>),
      Header(<<"k", "=", "V">>),
      Header(<<"k", "=">>),
      Header(<<"k", "=", "v", "=", "w">>),
      Header(<<"j", "=", "w">>),
      Header(<<"=", "v">>),
      Header(<<"k">>),
      Header(<<>>),
      <<"/", "/", "k", "=", "v">>,
      <<"x">>,
      <<>> }

PropFiles ==
    { [lines |-> l, finalNewline |-> b] :
        l \in SeqsUpTo(HeaderLines, MaxHeaderLines), b \in BOOLEAN }

PropsInit ==
    /\ testFiles \in { <<f>> : f \in PropFiles }
    /\ pc = "fetch"
    /\ testCases = <<>>
    /\ lastCall = "none"
    /\ action = "none"
    /\ idx = 1
    /\ failed = <<>>
    /\ ignored = <<>>
    /\ returnCode = -1
    /\ order = <<>>

\* line 71: what fetchProperties returns for the file, or that it raised
FetchProperties ==
    /\ pc = "fetch"
    /\ testCases' = <<fetchProperties(testFiles[1])>>
    /\ pc' = "fetched"
    /\ lastCall' = "fetchProperties"
    /\ UNCHANGED <<action, testFiles, idx, failed, ignored, returnCode, order>>

PropsNext == FetchProperties

PropsSpec == PropsInit /\ [][PropsNext]_vars

\* ------------------------------------- the compiler flags of compile()
\* What `cc -dumpversion` prints: the major version in decimal, then
\* nothing, a minor version, or a minor version and a patch level.
DigitOf(d) == CASE d = 0 -> "0" [] d = 1 -> "1" [] d = 2 -> "2" [] d = 3 -> "3"
                [] d = 4 -> "4" [] d = 5 -> "5" [] d = 6 -> "6" [] d = 7 -> "7"
                [] d = 8 -> "8" [] d = 9 -> "9"
RECURSIVE Decimal(_)
Decimal(n) == IF n < 10 THEN <<DigitOf(n)>> ELSE Append(Decimal(n \div 10), DigitOf(n % 10))
VersionTails == {<<>>, <<".", "2">>, <<".", "2", ".", "0">>}
VersionOutputs == {<<>>} \cup { Decimal(n) \o t : n \in 0..MaxMajor, t \in VersionTails }
Toolchains == { <<"c", "c">>, Gcc, Gcc \o <<"-", "9">>, Clang, Icc }

FlagsInit ==
    /\ testFiles \in { <<[cc |-> c, version |-> v]>> : c \in Toolchains, v \in VersionOutputs }
    /\ pc = "probe"
    /\ testCases = <<>>
    /\ lastCall = "none"
    /\ action = "none"
    /\ idx = 1
    /\ failed = <<>>
    /\ ignored = <<>>
    /\ returnCode = -1
    /\ order = <<>>

\* lines 101-112 for the default flags of line 92
Flags ==
    /\ pc = "probe"
    /\ LET cc == testFiles[1].cc
           v == testFiles[1].version
           m == ccMatch(cc)
       IN testCases' =
            << IF m = "none" THEN [match |-> m, exc |-> "fail", ccflags |-> <<>>]
               ELSE IF ~probeOk(m, v) THEN [match |-> m, exc |-> "error", ccflags |-> <<>>]
               ELSE [match |-> m, exc |-> "none",
                     ccflags |-> ccflagsFor(<<"-std=c99", "-g">>, m, v)] >>
    /\ pc' = "probed"
    /\ lastCall' = "compile"
    /\ UNCHANGED <<action, testFiles, idx, failed, ignored, returnCode, order>>

FlagsNext == Flags

FlagsSpec == FlagsInit /\ [][FlagsNext]_vars

\* ================================================================ claims
TC == testCases[1]
Terminal == {SUCCESS, FAILED, IGNORED}
Rank(st) == IF st \in Terminal THEN 4 ELSE st
Processed == 1..(idx - 1)
InList(list, name) == \E k \in 1..Len(list) : list[k] = name
NoOutputSet(w) ==
    LET v == getProperty(w, "nooutput", <<"0">>) IN IntOk(v) /\ IntOf(v) = 1

\* C1: the status of a TestCase only moves forward along WAITING ->
\* COMPILED -> EXECUTED -> {SUCCESS, FAILED, IGNORED}, and once it is
\* SUCCESS, FAILED or IGNORED no other value is assigned to it.
C1_StatusOnlyForward ==
    pc = "api" =>
        \A k \in 1..(Len(TC.log) - 1) :
            /\ Rank(TC.log[k]) <= Rank(TC.log[k + 1])
            /\ TC.log[k] \in Terminal => TC.log[k + 1] = TC.log[k]

\* C2: under the verify action, a case that reached EXECUTED, whose stdout
\* equals the stdout expectation and whose stderr differs from an existing
\* stderr expectation, ends FAILED, raises the fail signal and is in the
\* failed list.
C2_StderrMismatchFails ==
    action = "test" =>
        \A i \in Processed :
            LET w == testCases[i] IN
            ( /\ EXECUTED \in {w.log[k] : k \in 1..Len(w.log)}
              /\ w.expectFile.exists /\ w.outResult = w.expectFile.lines
              /\ w.expectErrFile.exists /\ w.errResult # w.expectErrFile.lines )
            => /\ w.status = FAILED
               /\ w.exc = "fail"
               /\ InList(failed, w.sourceFile)

\* C3: run() filters each stream on its own: the stored stdout is the
\* output of the stdout filter fed with the captured stdout when that
\* script exists and the captured stdout otherwise, and likewise the
\* stored stderr with the stderr filter.
C3_StreamsFilteredIndependently ==
    (pc = "api" /\ TC.status = EXECUTED) =>
        /\ TC.outResult = IF TC.filter # "none"
                          THEN runFilter(TC.filter, TC.captured.out)
                          ELSE TC.captured.out
        /\ TC.errResult = IF TC.errFilter # "none"
                          THEN runFilter(TC.errFilter, TC.captured.err)
                          ELSE TC.captured.err

\* C4: when the batch has ended, a test file whose source or driver could
\* not be opened is in the failed list, every other file's case was
\* constructed and given to the action, and the summary was reached.
C4_ConstructionFailureContained ==
    pc \in {"done", "aborted"} =>
        /\ pc = "done"
        /\ \A i \in 1..Len(testFiles) :
             IF testFiles[i].sourceOk /\ testFiles[i].driverOk
             THEN \E k \in Processed : testCases[k].sourceFile = Names[i]
             ELSE InList(failed, Names[i])

\* C5: the compile command, the run command and the comparison, store or
\* print step of a TestCase are each performed at most once, whatever
\* phase methods are called and however the calls ended.
C5_EachPhaseAtMostOnce ==
    pc = "api" => TC.nCompile <= 1 /\ TC.nRun <= 1 /\ TC.nCheck <= 1

\* C6: the exit status of the batch is non-zero if and only if at least
\* one case failed (it is in the failed list, or its construction failed);
\* ignored cases leave it alone.
CaseFailed(i) ==
    \/ ~(testFiles[i].sourceOk /\ testFiles[i].driverOk)
    \/ InList(failed, Names[i])
C6_ExitStatusIffFailed ==
    pc \in {"done", "aborted"} =>
        (returnCode # 0 <=> \E i \in 1..Len(testFiles) : CaseFailed(i))
C6_Witness ==
    pc = "done" /\ Len(ignored) = NumCases /\ returnCode = 0

\* C7 as claimed: under the verify action every case without a stdout
\* expectation file ends IGNORED, never FAILED, raises the ignore signal,
\* is in the ignored list and not in the failed list.
C7_NoExpectationIgnored ==
    action = "test" =>
        \A i \in Processed :
            LET w == testCases[i] IN
            ~w.expectFile.exists =>
                /\ w.status = IGNORED
                /\ \A k \in 1..Len(w.log) : w.log[k] # FAILED
                /\ w.exc = "ignored"
                /\ InList(ignored, w.sourceFile)
                /\ ~InList(failed, w.sourceFile)

\* C7 as amended: under the verify action every case that reached EXECUTED
\* (compile and run exited 0, nooutput not 1) and has no stdout expectation
\* file ends IGNORED, never FAILED, raises the ignore signal, is in the
\* ignored list and not in the failed list.
C7_ExecutedNoExpectationIgnored ==
    action = "test" =>
        \A i \in Processed :
            LET w == testCases[i] IN
            (~w.expectFile.exists /\ \E k \in 1..Len(w.log) : w.log[k] = EXECUTED) =>
                /\ w.status = IGNORED
                /\ \A k \in 1..Len(w.log) : w.log[k] # FAILED
                /\ w.exc = "ignored"
                /\ InList(ignored, w.sourceFile)
                /\ ~InList(failed, w.sourceFile)
C7_Witness ==
    /\ action = "test" /\ pc = "done" /\ Len(failed) > 0
    /\ \E i \in Processed :
         /\ ~testCases[i].expectFile.exists
         /\ testCases[i].status = IGNORED
         /\ InList(ignored, testCases[i].sourceFile)

\* C8: a case whose run command exited with a non-zero code has status
\* FAILED, and the call that ran it raised the fail signal, whatever the
\* action, the output, the nooutput property, the filters and the
\* expectation files.
C8_NonZeroExitFails ==
    pc = "api" =>
        /\ (TC.runRC # -1 /\ TC.runRC # 0) => TC.status = FAILED
        /\ ("run" \in TC.did /\ TC.runRC # 0) => TC.exc = "fail"
C8_Witness ==
    /\ pc = "api" /\ lastCall = "store" /\ "run" \in TC.did /\ TC.runRC = 1
    /\ NoOutputSet(TC) /\ TC.filter # "none" /\ TC.expectFile.exists
    /\ TC.status = FAILED /\ TC.exc = "fail"

\* C9: no line that begins with "!DBG" is in the stdout or stderr lines a
\* TestCase compares, writes to the expectation file or prints.
C9_NoDebugLineUsed ==
    (pc = "api" /\ TC.status \in {EXECUTED, SUCCESS, FAILED, IGNORED}) =>
        /\ \A k \in 1..Len(TC.outResult) : ~IsDebugLine(TC.outResult[k])
        /\ \A k \in 1..Len(TC.errResult) : ~IsDebugLine(TC.errResult[k])

\* C10: when the resolved nooutput property is "1" and the run command
\* exited 0, the case has status SUCCESS, was never IGNORED, and no
\* expectation file was opened or written, whatever the action.
C10_NoOutputSucceeds ==
    (pc = "api" /\ NoOutputSet(TC) /\ TC.runRC = 0) =>
        /\ TC.status = SUCCESS
        /\ \A k \in 1..Len(TC.log) : TC.log[k] # IGNORED
        /\ TC.nExpectOpen = 0
        /\ TC.nExpectWrite = 0
C10_Witness ==
    /\ pc = "api" /\ lastCall = "test" /\ "run" \in TC.did
    /\ NoOutputSet(TC) /\ TC.runRC = 0
    /\ ~TC.expectFile.exists /\ TC.status = SUCCESS

\* C11 as claimed: store and then verify on the same case of a program that
\* does the same every time leaves verify with status SUCCESS.
C11_StoreThenVerifySucceeds ==
    pc = "verified" => testCases[2].status = SUCCESS

\* C11 as amended: when the store action ended with status SUCCESS, verify
\* run next on the same case (the same TestCase or a new one for the same
\* source) ends with status SUCCESS.
C11_StoredThenVerifySucceeds ==
    (pc = "verified" /\ testCases[1].status = SUCCESS) => testCases[2].status = SUCCESS
C11_Witness ==
    /\ pc = "verified" /\ testCases[1].status = SUCCESS
    /\ "store" \in testCases[1].did /\ Len(testCases[1].outResult) = MaxOutLines
    /\ "compare" \in testCases[2].did /\ testCases[2].status = SUCCESS
    /\ ~testFiles[1].file.expect.exists

\* C12: after the batch loop no case is in both lists, no case is twice in
\* a list, the summary counts the failed cases over the cases that were not
\* ignored, and the count is at most that denominator.
NoDuplicates(list) == \A j, k \in 1..Len(list) : list[j] = list[k] => j = k
C12_DisjointOutcomes ==
    pc = "done" =>
        LET failedCases == {i \in 1..Len(testCases) : testCases[i].exc \in {"fail", "error"}}
            ignoredCases == {i \in 1..Len(testCases) : testCases[i].exc = "ignored"}
            s == summary(testCases, failed, ignored)
        IN /\ \A i \in 1..Len(testCases) :
                ~(InList(failed, Names[i]) /\ InList(ignored, Names[i]))
           /\ NoDuplicates(failed) /\ NoDuplicates(ignored)
           /\ s.failed = Cardinality(failedCases)
           /\ s.of = Len(testCases) - Cardinality(ignoredCases)
           /\ s.failed <= s.of
C12_Witness ==
    /\ pc = "done" /\ Len(testCases) = 2 /\ returnCode = 1
    /\ summary(testCases, failed, ignored) = [failed |-> 1, of |-> 2]
    /\ testCases[1].status = SUCCESS
    /\ testCases[2].nCompile = 1 /\ testCases[2].log = <<WAITING, FAILED>>

\* C13: a step changes the stdout expectation file only if it is a store
\* call on a case that reached EXECUTED (compile and run exited 0, nooutput
\* not set), and the file then holds exactly the stored stdout lines; such
\* a store call always writes it; no step changes the stderr expectation.
InLog(w, st) == \E k \in 1..Len(w.log) : w.log[k] = st
C13_StoreStep ==
    /\ TC'.expectErrFile = TC.expectErrFile
    /\ (TC'.expectFile # TC.expectFile \/ TC'.nExpectWrite # TC.nExpectWrite) =>
          /\ lastCall' = "store"
          /\ TC.status \in {WAITING, COMPILED, EXECUTED}
          /\ InLog(TC', COMPILED) /\ InLog(TC', EXECUTED)
          /\ TC'.runRC = 0 /\ ~NoOutputSet(TC')
          /\ TC'.nExpectWrite = TC.nExpectWrite + 1
    /\ ( /\ lastCall' = "store" /\ TC.status \in {WAITING, COMPILED, EXECUTED}
         /\ InLog(TC', EXECUTED) /\ TC'.exc = "none" ) =>
          /\ TC'.expectFile = File(TC'.outResult)
          /\ TC'.nExpectWrite = TC.nExpectWrite + 1
ResolvedCC(w) ==
    IF "cc" \in DOMAIN w.properties THEN w.properties["cc"]
    ELSE IF "cc" \in DOMAIN w.driverProperties THEN w.driverProperties["cc"]
    ELSE IF "CC" \in DOMAIN w.env THEN w.env["CC"]
    ELSE <<"c", "c">>
Unrecognized(cc) ==
    /\ ~StartsWith(cc, <<"c", "c">>)
    /\ ~StartsWith(cc, <<"g", "c", "c">>)
    /\ ~StartsWith(cc, <<"c", "l", "a", "n", "g">>)
C14_UnknownToolchainStep ==
    Unrecognized(ResolvedCC(TC)) =>
        /\ TC'.status = FAILED
        /\ TC'.log = <<WAITING, FAILED>>
        /\ TC.status = WAITING => TC'.exc = "fail"
        /\ TC'.nCompile = 0 /\ TC'.nRun = 0 /\ TC'.lastCmd = <<>>
C14_UnknownToolchainFails == [][pc = "api" => C14_UnknownToolchainStep]_vars
C14_Witness ==
    /\ pc = "api" /\ lastCall = "run" /\ Unrecognized(ResolvedCC(TC))
    /\ "cc" \in DOMAIN TC.driverProperties
    /\ TC.status = FAILED /\ TC.exc = "fail" /\ TC.nCompile = 0

\* C15: getProperty gives the test-local value of a name the test-local
\* set has, else the driver's value of a name the driver set has, else the
\* default; a driver value never replaces a test-local one; no step changes
\* either property set.
PropertyNames == {"cc", "nooutput", "compile", "run", "args"}
SomeDefault == <<"d", "f", "l", "t">>
ResolvesLocalFirst(w) ==
    \A n \in PropertyNames :
        /\ n \in DOMAIN w.properties => getProperty(w, n, SomeDefault) = w.properties[n]
        /\ (n \notin DOMAIN w.properties /\ n \in DOMAIN w.driverProperties) =>
              getProperty(w, n, SomeDefault) = w.driverProperties[n]
        /\ (n \notin DOMAIN w.properties /\ n \notin DOMAIN w.driverProperties) =>
              getProperty(w, n, SomeDefault) = SomeDefault
C15_GetPropertyStep ==
    /\ ResolvesLocalFirst(TC) /\ ResolvesLocalFirst(TC')
    /\ TC'.properties = TC.properties
    /\ TC'.driverProperties = TC.driverProperties
C15_GetPropertyOrder == [][pc = "api" => C15_GetPropertyStep]_vars
C15_Witness ==
    /\ pc = "api" /\ lastCall = "test" /\ TC.status = SUCCESS
    /\ "nooutput" \in DOMAIN TC.properties /\ "nooutput" \in DOMAIN TC.driverProperties
    /\ TC.properties["nooutput"] # TC.driverProperties["nooutput"]
    /\ getProperty(TC, "nooutput", SomeDefault) = TC.properties["nooutput"]

\* C16: a run command was executed only after the compile command of the
\* case exited 0; an expectation was opened or written, streams compared
\* or a result printed only after the run command exited 0; after a compile
\* command that exited non-zero no run command is executed, whatever is
\* called later.
C16_FailuresShortCircuit ==
    pc = "api" =>
        /\ TC.nRun > 0 => (TC.nCompile = 1 /\ InLog(TC, COMPILED))
        /\ (TC.nCheck > 0 \/ TC.nExpectOpen > 0 \/ TC.nExpectWrite > 0) =>
              (TC.nRun > 0 /\ TC.runRC = 0 /\ InLog(TC, EXECUTED))
        /\ (TC.nCompile > 0 /\ ~InLog(TC, COMPILED)) =>
              (TC.nRun = 0 /\ TC.nCheck = 0 /\ TC.status = FAILED)
C16_Witness ==
    /\ pc = "api" /\ lastCall = "printResult" /\ TC.did = {} /\ TC.exc = "none"
    /\ TC.nCompile = 1 /\ ~InLog(TC, COMPILED) /\ TC.nRun = 0 /\ TC.status = FAILED

\* C17: the batch loop applies the action to the constructed cases one at
\* a time in discovery order, each exactly once: the cases before the loop
\* position have been acted on in that order and the others not at all, and
\* at the end every case has been acted on.  A case whose action left with
\* an unexpected exception is in the failed list, and the loop goes on to
\* the cases after it.
Untouched(w) ==
    /\ w.status = WAITING /\ w.log = <<WAITING>> /\ w.exc = "none"
    /\ w.nCompile = 0 /\ w.nRun = 0 /\ w.nCheck = 0
    /\ w.nExpectOpen = 0 /\ w.nExpectWrite = 0
C17_LoopRunsEveryCaseOnce ==
    pc \in {"loop", "done"} =>
        /\ order = [k \in 1..(idx - 1) |-> k]
        /\ \A i \in 1..Len(testCases) :
              /\ testCases[i].sourceFile = Names[i]
              /\ i >= idx => Untouched(testCases[i])
              /\ (i < idx /\ testCases[i].exc = "error") =>
                    InList(failed, testCases[i].sourceFile)
        /\ pc = "done" => order = [k \in 1..Len(testCases) |-> k]
C17_Witness ==
    /\ pc = "done" /\ Len(testCases) >= 2
    /\ testCases[1].exc = "error" /\ InList(failed, testCases[1].sourceFile)
    /\ order = [k \in 1..Len(testCases) |-> k]
    /\ testCases[2].nCompile = 1 /\ testCases[2].status = SUCCESS

\* C19: after the loop a case is in the failed list iff its status is
\* FAILED, in the ignored list iff its status is IGNORED, and the status of
\* every case is SUCCESS, FAILED or IGNORED.
C19_ListsAgreeWithStatus ==
    pc = "done" =>
        \A i \in 1..Len(testCases) :
            /\ InList(failed, testCases[i].sourceFile) <=> testCases[i].status = FAILED
            /\ InList(ignored, testCases[i].sourceFile) <=> testCases[i].status = IGNORED
            /\ testCases[i].status \in Terminal

\* C18: fetchProperties returns the properties of the contiguous leading
\* block of lines that start with "//!": each line split once at its first
\* "=", the lower-cased trimmed key mapped to the whole trimmed text after
\* the "=", whether or not the last line of the file ends with a newline;
\* lines after the first line without the marker add nothing.  (Stated for
\* files whose leading lines all hold a "=".)
RECURSIVE LeadingBlock(_)
LeadingBlock(lines) ==
    IF Len(lines) > 0 /\ StartsWith(Head(lines), Marker)
    THEN <<Head(lines)>> \o LeadingBlock(Tail(lines))
    ELSE <<>>
RECURSIVE StatedProperties(_, _)
StatedProperties(block, properties) ==
    IF block = <<>> THEN properties
    ELSE LET sp == split(SubSeq(Head(block), 4, Len(Head(block))))
         IN StatedProperties(Tail(block),
                             put(properties, strip(lower(sp[1])), strip(sp[2])))
HasEquals(line) == \E i \in 1..Len(line) : line[i] = "="
C18_FetchPropertiesWholeValue ==
    pc = "fetched" =>
        LET block == LeadingBlock(testFiles[1].lines) IN
        (\A i \in 1..Len(block) : HasEquals(block[i])) =>
            /\ ~testCases[1].error
            /\ testCases[1].properties = StatedProperties(block, NoProps)

\* C20: for a recognized toolchain the flags hold "-fno-pie"; for cc and
\* gcc they hold "-no-pie" exactly when the major version that
\* -dumpversion reports, of one digit or more, is greater than 4.
RECURSIVE LeadingDigits(_)
LeadingDigits(s) ==
    IF Len(s) > 0 /\ Head(s) \in Digits THEN <<Head(s)>> \o LeadingDigits(Tail(s)) ELSE <<>>
Major(v) == IntOf(LeadingDigits(v))
HasFlag(flags, f) == \E i \in 1..Len(flags) : flags[i] = f
C20_NoPieIffMajorAboveFour ==
    (pc = "probed" /\ testCases[1].match # "none" /\ LeadingDigits(testFiles[1].version) # <<>>) =>
        /\ testCases[1].exc = "none"
        /\ HasFlag(testCases[1].ccflags, "-fno-pie")
        /\ testCases[1].match \in {"cc", "gcc"} =>
              (HasFlag(testCases[1].ccflags, "-no-pie") <=> Major(testFiles[1].version) > 4)

====
